---------------------------- MODULE Spec2Model ----------------------------
(***************************************************************************)
(* A model of fms/modules/attention.py: the rotary table cache             *)
(* (GaudiRotaryEmbedding), the attention core (MultiHeadAttention) and the *)
(* tensor-parallel wrapper (TPMultiHeadAttention).                         *)
(*                                                                         *)
(* The module holds five specifications over one set of variables; each    *)
(* drives one component and leaves the variables of the others at rest:    *)
(*   SpecRope   GaudiRotaryEmbedding.forward                               *)
(*   SpecAttn   MultiHeadAttention.__init__ / forward under a caller that  *)
(*              threads the returned cache through its calls               *)
(*   SpecFlags  MultiHeadAttention.__init__ / forward of two instances     *)
(*              while other code changes the global backend switches       *)
(*   SpecLoad   TPMultiHeadAttention.load_weights                          *)
(*   SpecTP     TPMultiHeadAttention.__init__ / forward on every rank      *)
(***************************************************************************)
EXTENDS Integers, Sequences, FiniteSets

VARIABLES
    rotary,      \* SpecRope: the GaudiRotaryEmbedding object
    rope_ret,    \* SpecRope: what the last forward(x, seq_len) returned
    rope_seen,   \* SpecRope: history, the first return of every (seq_len, dtype)
    sdp,         \* the process-wide torch.backends.cuda switches
    mha,         \* SpecAttn: the MultiHeadAttention instances
    sess,        \* SpecAttn: the caller's decoding session (the cache it holds)
    ret,         \* SpecAttn: what the last forward call returned
    tpw,         \* SpecLoad: the TP module whose weights are loaded
    load_ret,    \* SpecLoad: the outcome of the last load_weights call
    tp,          \* SpecTP: the global (nheads, kvheads, world_size)
    tpmod,       \* SpecTP: rank -> the module built on that rank
    wk,          \* SpecTP: rank -> the worker's position in its forward call
    coll         \* SpecTP: the state of the process group's collective

ropeVars == <<rotary, rope_ret, rope_seen>>
attnVars == <<sdp, mha, sess, ret>>
loadVars == <<tpw, load_ret>>
tpVars   == <<tp, tpmod, wk, coll>>
vars     == <<rotary, rope_ret, rope_seen, sdp, mha, sess, ret, tpw, load_ret,
              tp, tpmod, wk, coll>>

None == [kind |-> "None"]

(***************************************************************************)
(* Bounds of the rotary requests.                                          *)
(***************************************************************************)
MaxSeq == 3        \* rotary requests ask for 0..MaxSeq rows
MaxPos == 1        \* max_position_embeddings of the rotary cache is 0..MaxPos

(***************************************************************************)
(* GaudiRotaryEmbedding.                                                   *)
(*                                                                         *)
(* A table value is a fixed-point number with 8 fractional bits: CosAt[p+1]*)
(* and SinAt[p+1] are cos(p) and sin(p) scaled by 256, the float32 values  *)
(* of one frequency (inv_freq = 1).  float32 holds all 8 bits; bfloat16    *)
(* holds the upper ones only, so a cast to bfloat16 rounds toward zero to  *)
(* a multiple of 8 and a cast back to float32 does not restore the bits.   *)
(***************************************************************************)
DTypes == {"float32", "bfloat16"}
DefaultDType == "float32"

CosAt == <<256, 138, -107, -253, -167, 73, 246, 193, -37, -233>>
SinAt == <<0, 215, 233, 36, -194, -245, -72, 168, 253, 106>>

TruncTo(v, q) == IF v >= 0 THEN (v \div q) * q ELSE -(((-v) \div q) * q)

\* Tensor.to(dtype) on one element
ToDType(v, dtype) == IF dtype = "bfloat16" THEN TruncTo(v, 8) ELSE v

\* Tensor.to(dtype) on a table
TableTo(tbl, dtype) == [i \in 1..Len(tbl) |-> ToDType(tbl[i], dtype)]

\* tensor[:n] for n >= 0
Rows(tbl, n) == SubSeq(tbl, 1, IF n <= Len(tbl) THEN n ELSE Len(tbl))

\* _set_cos_sin_cache(seq_len, device, dtype): t and freqs are computed in
\* inv_freq's dtype (float32), the tables are stored cast to dtype.
SetCosSinCache(seq_len, dtype) ==
    [max_seq_len_cached |-> seq_len,
     cos_cached |-> [i \in 1..seq_len |-> ToDType(CosAt[i], dtype)],
     sin_cached |-> [i \in 1..seq_len |-> ToDType(SinAt[i], dtype)]]

\* GaudiRotaryEmbedding.__init__
RotaryInit(max_position_embeddings) ==
    SetCosSinCache(max_position_embeddings, DefaultDType)

\* Whether forward(x, seq_len) regenerates the tables
RopeRegenerates(self, seq_len) == seq_len > self.max_seq_len_cached

\* The object after forward(x, seq_len), x of type dtype
RopeAfter(self, seq_len, dtype) ==
    IF RopeRegenerates(self, seq_len) THEN SetCosSinCache(seq_len, dtype) ELSE self

\* What forward(x, seq_len) returns
RopeResult(self, seq_len, dtype) ==
    LET s == RopeAfter(self, seq_len, dtype)
    IN  [cos |-> TableTo(Rows(s.cos_cached, seq_len), dtype),
         sin |-> TableTo(Rows(s.sin_cached, seq_len), dtype)]

RopeReqs == (0..MaxSeq) \X DTypes

\* One call of GaudiRotaryEmbedding.forward
RopeForward(seq_len, dtype) ==
    /\ rotary' = RopeAfter(rotary, seq_len, dtype)
    /\ rope_ret' = [seq_len |-> seq_len, dtype |-> dtype,
                    regenerated |-> RopeRegenerates(rotary, seq_len),
                    before |-> rotary.max_seq_len_cached,
                    prior |-> rope_seen[<<seq_len, dtype>>],
                    result |-> RopeResult(rotary, seq_len, dtype)]
    /\ rope_seen' = IF rope_seen[<<seq_len, dtype>>] = None
                    THEN [rope_seen EXCEPT ![<<seq_len, dtype>>] =
                              [kind |-> "Seen",
                               result |-> RopeResult(rotary, seq_len, dtype)]]
                    ELSE rope_seen

(***************************************************************************)
(* Tensors of the attention core.                                          *)
(*                                                                         *)
(* A key or value tensor [batch, heads, seq, head-dim] is a record         *)
(* [kind, b, h, d, seq]: seq is the sequence axis, one entry per position, *)
(* and the element of head j at position t is the pair <<j, seq[t]>>.  An  *)
(* entry [call, pos, rot] names the forward call and the source position   *)
(* it was projected from and counts the rotary rotations applied to it.    *)
(* Unbound is a local name that was never assigned.                        *)
(***************************************************************************)
MaxLen   == 2      \* a call's key/value source holds 0..MaxLen positions
MaxCalls == 2      \* calls of one cache chain
HeadDim  == 1      \* emb_kq_per_head = emb_v_per_head
EmbDim   == 1      \* emb_dim, the rotary cache's max_position_embeddings

Unbound == [kind |-> "Unbound"]

Tensor(b, h, d, seq) == [kind |-> "Tensor", b |-> b, h |-> h, d |-> d, seq |-> seq]

\* Tensor.numel()
Numel(t) == t.b * t.h * Len(t.seq) * t.d

\* torch.cat((x, y), dim=2)
Cat(x, y) == Tensor(x.b, x.h, x.d, x.seq \o y.seq)

\* The encoder's rotation of a freshly projected tensor
Rotate(t) == [t EXCEPT !.seq = [i \in 1..Len(t.seq) |->
                                   [t.seq[i] EXCEPT !.rot = t.seq[i].rot + 1]]]

\* self.key(k).view(...) / self.value(v).view(...): a projection of the source
\* of call a.call, kv_len positions, kvheads heads
Project(self, a) ==
    Tensor(a.batch, self.kvheads, HeadDim,
           [i \in 1..a.kv_len |-> [call |-> a.call, pos |-> i, rot |-> 0]])

\* self.query(q).view(...), with the number of rotations applied
Queries(self, a, rot) ==
    [kind |-> "Tensor", b |-> a.batch, h |-> self.nheads, d |-> HeadDim,
     len |-> a.q_len, rot |-> rot]

\* "if is_self or past_key_value_state is None"
Fresh(a) == a.is_self \/ a.past = None

\* "if self.position_encoder is not None", inside the branch above
Rotates(self, a) == Fresh(a) /\ self.position_encoder

\* keys as the first stage leaves them: projected and rotated, or never bound
KeysProjected(self, a) ==
    IF Fresh(a)
    THEN IF self.position_encoder THEN Rotate(Project(self, a)) ELSE Project(self, a)
    ELSE Unbound

ValuesProjected(self, a) == IF Fresh(a) THEN Project(self, a) ELSE Unbound

\* The standard path transposes keys and values outside the branch that binds
\* them: with a prior cache in cross-attention the names are unbound there.
TransposeRaises(self, a) == self.device # "hpu" /\ ~Fresh(a)

\* "use_cache and past_key_value_state is not None and
\*  past_key_value_state[0].numel() > 0"
UsesPast(a) ==
    /\ a.use_cache
    /\ a.past # None
    /\ Numel(a.past.keys) > 0

\* A mutant: the encoder applied to the merged tensor
KeysRotatedAfterMerge(self, a) ==
    LET k == IF Fresh(a) THEN Project(self, a) ELSE Unbound
        m == IF UsesPast(a)
             THEN IF a.is_self THEN Cat(a.past.keys, k) ELSE a.past.keys
             ELSE k
    IN  IF Rotates(self, a) THEN Rotate(m) ELSE m

\* keys after the cache stage
KeysMerged(self, a) ==
    IF UsesPast(a)
    THEN IF a.is_self THEN Cat(a.past.keys, KeysProjected(self, a)) ELSE a.past.keys
    ELSE KeysProjected(self, a)

\* A mutant: the new entries replace the cache
ValuesNotConcatenated(self, a) == ValuesProjected(self, a)

\* values after the cache stage
ValuesMerged(self, a) ==
    IF UsesPast(a)
    THEN IF a.is_self THEN Cat(a.past.values, ValuesProjected(self, a))
         ELSE a.past.values
    ELSE ValuesProjected(self, a)

\* A mutant: interleaved repetition (repeat, not repeat_interleave)
HeadSourceInterleaved(kvheads, expansion, j) == j % kvheads

\* t.unsqueeze(2).expand(-1, -1, expansion, -1, -1).flatten(1, 2): the head of
\* t that expanded head j (0-based) carries
HeadSource(kvheads, expansion, j) == j \div expansion

\* The expanded tensor: src maps each of its heads to the head of t it repeats
Expand(self, t) ==
    LET expansion == self.nheads \div self.kvheads
    IN  IF expansion # 1
        THEN [kind |-> "Expanded", b |-> t.b, h |-> t.h * expansion, d |-> t.d,
              seq |-> t.seq,
              src |-> [j \in 0..(t.h * expansion - 1) |->
                          HeadSource(t.h, expansion, j)]]
        ELSE t

\* The rotary cache of the fused path: rotary_emb(values, keys.shape[2])
RotaryAfterForward(self, a) ==
    IF self.device = "hpu" /\ Rotates(self, a)
    THEN RopeAfter(self.rotary_emb, a.kv_len, DefaultDType)
    ELSE self.rotary_emb

(***************************************************************************)
(* The process-wide backend switches.                                      *)
(***************************************************************************)
Algos == {"None", "flash", "mem", "math"}

AllOn == [flash |-> TRUE, mem_efficient |-> TRUE, math |-> TRUE]

\* enable_flash_sdp(use_flash), enable_mem_efficient_sdp(...), enable_math_sdp(...)
SdpFor(attn_algorithm) ==
    [flash |-> attn_algorithm = "flash",
     mem_efficient |-> attn_algorithm = "mem",
     math |-> attn_algorithm = "math"]

\* The switches after the kernel dispatch: with a hint, the standard path
\* sets them for the call and then writes back the values read in __init__.
SdpAfterForward(self, a, flags) ==
    IF self.device # "hpu" /\ a.attn_algorithm # "None"
    THEN [flash |-> self.previous_flash,
          mem_efficient |-> self.previous_mem_efficient,
          math |-> self.previous_math]
    ELSE flags

\* MultiHeadAttention.__init__
NewMHA(nheads, kvheads, position_encoder, device, flags) ==
    [kind |-> "MHA", nheads |-> nheads, kvheads |-> kvheads,
     position_encoder |-> position_encoder, device |-> device,
     previous_flash |-> flags.flash,
     previous_mem_efficient |-> flags.mem_efficient,
     previous_math |-> flags.math,
     rotary_emb |-> RotaryInit(EmbDim)]

\* The name keys is read unbound: on the standard path at the transposition,
\* on the fused path at the mask adjustment or the expansion.
ForwardRaises(self, a) ==
    TransposeRaises(self, a) \/ KeysMerged(self, a) = Unbound

\* MultiHeadAttention.forward: what it returns and what it leaves behind
CoreForward(self, a, flags) ==
    IF ForwardRaises(self, a)
    THEN [raised |-> "UnboundLocalError", out |-> None, cache |-> None,
          queries |-> None, keys |-> None, values |-> None,
          keys_e |-> None, values_e |-> None,
          flags |-> flags, rotary_emb |-> RotaryAfterForward(self, a)]
    ELSE LET keys == KeysMerged(self, a)
             values == ValuesMerged(self, a)
             queries == Queries(self, a, IF Rotates(self, a) THEN 1 ELSE 0)
         IN  [raised |-> "",
              out |-> [kind |-> "Out", b |-> a.batch, q_len |-> a.q_len,
                       kv_len |-> Len(keys.seq), heads |-> queries.h],
              cache |-> IF a.use_cache
                        THEN [kind |-> "Cache", keys |-> keys, values |-> values]
                        ELSE None,
              queries |-> queries, keys |-> keys, values |-> values,
              keys_e |-> Expand(self, keys),
              values_e |-> Expand(self, values),
              flags |-> SdpAfterForward(self, a, flags),
              rotary_emb |-> RotaryAfterForward(self, a)]

(***************************************************************************)
(* SpecRope: requests to one GaudiRotaryEmbedding.                         *)
(***************************************************************************)
RopeRequest ==
    /\ \E seq_len \in 0..MaxSeq, dtype \in DTypes : RopeForward(seq_len, dtype)
    /\ UNCHANGED <<attnVars, loadVars, tpVars>>

(***************************************************************************)
(* SpecAttn and SpecFlags: the attention core and its callers.             *)
(***************************************************************************)
Inst == {1, 2}

\* (nheads, kvheads) of the instances: no grouping, one shared KV head, two
\* groups of two
HeadConfigs == {<<2, 2>>, <<2, 1>>, <<4, 2>>}

Batches == {1, 2}

\* The hints a session passes
SessionAlgos == {"None", "math"}

Devices == {"cpu", "hpu"}

Flags == [flash : BOOLEAN, mem_efficient : BOOLEAN, math : BOOLEAN]

NoSession == [is_self |-> TRUE, batch |-> 1, cache |-> None, calls |-> 0,
              sum |-> 0]

\* MultiHeadAttention(...) is constructed: it reads the three switches
Construct(i, hc, position_encoder, device) ==
    /\ mha[i] = None
    /\ mha' = [mha EXCEPT ![i] = NewMHA(hc[1], hc[2], position_encoder, device, sdp)]
    /\ UNCHANGED <<sdp, sess, ret>>

\* One call of forward on instance i with arguments a: the module's rotary
\* cache and the process-wide switches are what the call leaves behind.
Forward(i, a) ==
    LET r == CoreForward(mha[i], a, sdp)
    IN  /\ sdp' = r.flags
        /\ mha' = [mha EXCEPT ![i].rotary_emb = r.rotary_emb]
        /\ ret' = [inst |-> i, is_self |-> a.is_self, use_cache |-> a.use_cache,
                   past |-> a.past, kv_len |-> a.kv_len,
                   hinted |-> a.attn_algorithm # "None",
                   raised |-> r.raised, out |-> r.out, cache |-> r.cache,
                   queries |-> r.queries, keys |-> r.keys, values |-> r.values,
                   keys_e |-> r.keys_e, values_e |-> r.values_e]

\* The caller starts its decoding session: it holds no cache yet
StartSession ==
    /\ mha[1] # None
    /\ sess.calls = 0
    /\ ret = None
    /\ \E is_self \in BOOLEAN, batch \in Batches :
          sess' = [NoSession EXCEPT !.is_self = is_self, !.batch = batch]
    /\ UNCHANGED <<sdp, mha, ret>>

\* The caller's bookkeeping after a call: a call with use_cache that returned
\* replaces the held cache; a call given no cache starts a new chain.
SessionAfter(a, r) ==
    IF r.raised # "" \/ ~a.use_cache
    THEN [sess EXCEPT !.calls = sess.calls + 1]
    ELSE [sess EXCEPT !.calls = sess.calls + 1,
                      !.cache = r.cache,
                      !.sum = IF a.past = None THEN a.kv_len
                              ELSE sess.sum + a.kv_len]

\* A forward call of the session: the caller passes the cache it holds, or none
SessionForward ==
    /\ mha[1] # None
    /\ sess.calls < MaxCalls
    /\ \E kv_len \in 0..MaxLen, algo \in SessionAlgos, use_cache \in BOOLEAN,
          give_past \in BOOLEAN :
          LET a == [q_len |-> IF sess.is_self THEN kv_len ELSE 1,
                    kv_len |-> kv_len, batch |-> sess.batch,
                    call |-> sess.calls + 1, attn_algorithm |-> algo,
                    past |-> IF give_past THEN sess.cache ELSE None,
                    use_cache |-> use_cache, is_self |-> sess.is_self]
          IN  /\ Forward(1, a)
              /\ sess' = SessionAfter(a, CoreForward(mha[1], a, sdp))

ConstructOne ==
    /\ \E hc \in HeadConfigs, pe \in BOOLEAN, device \in Devices :
          Construct(1, hc, pe, device)
    /\ UNCHANGED <<ropeVars, loadVars, tpVars>>

StartSessionStep == StartSession /\ UNCHANGED <<ropeVars, loadVars, tpVars>>

SessionForwardStep == SessionForward /\ UNCHANGED <<ropeVars, loadVars, tpVars>>

\* SpecFlags: other code of the process changes the switches
SetSdp ==
    /\ \E f \in Flags : f # sdp /\ sdp' = f
    /\ UNCHANGED <<mha, sess, ret>>
    /\ UNCHANGED <<ropeVars, loadVars, tpVars>>

ConstructAny ==
    /\ \E i \in Inst : Construct(i, <<1, 1>>, FALSE, "cpu")
    /\ UNCHANGED <<ropeVars, loadVars, tpVars>>

\* A forward call without cache on any instance
PlainForward ==
    /\ \E i \in Inst, algo \in Algos :
          /\ mha[i] # None
          /\ Forward(i, [q_len |-> 1, kv_len |-> 1, batch |-> 1, call |-> 1,
                         attn_algorithm |-> algo, past |-> None,
                         use_cache |-> FALSE, is_self |-> TRUE])
    /\ UNCHANGED sess
    /\ UNCHANGED <<ropeVars, loadVars, tpVars>>

(***************************************************************************)
(* SpecLoad: TPMultiHeadAttention.load_weights.                            *)
(***************************************************************************)
MaxLoads == 1      \* load_weights calls on the module

WeightNames == <<"query.weight", "key.weight", "value.weight", "dense.weight">>
BiasNames   == <<"query.bias", "key.bias", "value.bias", "dense.bias">>

Range(q) == {q[i] : i \in 1..Len(q)}

\* The keys a checkpoint may hold: every parameter name and a foreign one
CheckpointKeys == Range(WeightNames) \cup Range(BiasNames) \cup {"foo.weight"}

\* The names load_weights asks for, in the order it asks and copies
Wanted(self) == IF self.use_bias THEN WeightNames \o BiasNames ELSE WeightNames

\* TPModule._get_sd_weight(tensor_values, used_keys, [component, kind]): the
\* entry of that name, which it adds to used_keys; Missing when there is none.
GetSdWeight(tensor_values, name) ==
    IF name \in tensor_values THEN name ELSE "Missing"

\* used_keys when the extraction has run over the names of q
UsedKeys(tensor_values, q) == Range(q) \cap tensor_values

\* The first name (a position of q) the checkpoint lacks, 0 when it has all
RECURSIVE FirstMissing(_, _, _)
FirstMissing(tensor_values, q, i) ==
    IF i > Len(q) THEN 0
    ELSE IF GetSdWeight(tensor_values, q[i]) = "Missing" THEN i
    ELSE FirstMissing(tensor_values, q, i + 1)

\* A mutant: the threshold of the module with biases, whatever use_bias
TooManyEntriesBiasBlind(self, tensor_values) == Cardinality(tensor_values) > 8

\* "if len(tensor_values) > (8 if self.use_bias else 4)"
TooManyEntries(self, tensor_values) ==
    Cardinality(tensor_values) > (IF self.use_bias THEN 8 ELSE 4)

\* A mutant: the check runs after the sharded copies
LoadOutcomeCheckLast(self, tensor_values) ==
    LET q == Wanted(self)
        m == FirstMissing(tensor_values, q, 1)
    IN  IF m # 0 /\ ~self.lenient
        THEN [error |-> "WeightNotFound", unused |-> {}, modified |-> {}]
        ELSE IF m # 0
        THEN [error |-> "TypeError", unused |-> {},
              modified |-> {q[i] : i \in 1..(m - 1)}]
        ELSE IF TooManyEntries(self, tensor_values)
        THEN [error |-> "UnusedWeights",
              unused |-> tensor_values \ UsedKeys(tensor_values, q),
              modified |-> Range(q)]
        ELSE [error |-> "", unused |-> {}, modified |-> Range(q)]

\* load_weights(tensor_values): the error it raises (none: ""), the keys the
\* unused-weights message lists and the parameters it wrote.  The helper's answer
\* to a missing name is not part of this file: it raises (self.lenient = FALSE),
\* or it hands back nothing and the first sharded copy of nothing fails.
LoadOutcome(self, tensor_values) ==
    LET q == Wanted(self)
        m == FirstMissing(tensor_values, q, 1)
    IN  IF m # 0 /\ ~self.lenient
        THEN [error |-> "WeightNotFound", unused |-> {}, modified |-> {}]
        ELSE IF TooManyEntries(self, tensor_values)
        THEN [error |-> "UnusedWeights",
              unused |-> tensor_values \ UsedKeys(tensor_values, q),
              modified |-> {}]
        ELSE IF m # 0
        THEN [error |-> "TypeError", unused |-> {},
              modified |-> {q[i] : i \in 1..(m - 1)}]
        ELSE [error |-> "", unused |-> {}, modified |-> Range(q)]

\* The module before any load; lenient is the helper's answer to a missing name
NewTPW(use_bias, lenient) ==
    [use_bias |-> use_bias, lenient |-> lenient, loads |-> 0,
     written |-> [n \in Range(WeightNames \o BiasNames) |-> 0]]

\* One call of load_weights: written[n] counts the copies into parameter n
LoadWeights ==
    /\ tpw.loads < MaxLoads
    /\ \E tensor_values \in SUBSET CheckpointKeys :
          LET o == LoadOutcome(tpw, tensor_values)
          IN  /\ tpw' = [tpw EXCEPT !.loads = tpw.loads + 1,
                                    !.written = [n \in DOMAIN tpw.written |->
                                        IF n \in o.modified
                                        THEN tpw.written[n] + 1
                                        ELSE tpw.written[n]]]
              /\ load_ret' = [tensor_values |-> tensor_values,
                              error |-> o.error, unused |-> o.unused,
                              before |-> tpw.written]
    /\ UNCHANGED <<ropeVars, attnVars, tpVars>>

(***************************************************************************)
(* SpecTP: TPMultiHeadAttention on every rank of the process group.        *)
(***************************************************************************)
MaxWorld   == 4    \* world sizes 1..MaxWorld
MaxTPHeads == 4    \* global head counts 1..MaxTPHeads
MaxTPCalls == 2    \* forward calls of the group

Ranks == 0..(tp.world_size - 1)

\* The two assertions of TPMultiHeadAttention.__init__
TPAsserts(nheads, kvheads, world_size) ==
    /\ nheads % world_size = 0
    /\ \/ (kvheads >= world_size /\ kvheads % world_size = 0)
       \/ (kvheads < world_size /\ world_size % kvheads = 0)

\* nheads // world_size
LocalNHeads(nheads, world_size) == nheads \div world_size

\* A mutant: the share without the floor of one head
LocalKVHeadsNoFloor(kvheads, world_size) == kvheads \div world_size

\* (kvheads // world_size) if kvheads >= world_size else 1
LocalKVHeads(kvheads, world_size) ==
    IF kvheads >= world_size THEN kvheads \div world_size ELSE 1

\* TPMultiHeadAttention.__init__ on one rank
NewTPMHA(nheads, kvheads, rank, world_size) ==
    IF ~TPAsserts(nheads, kvheads, world_size)
    THEN [kind |-> "AssertionError"]
    ELSE [kind |-> "TPMHA",
          core |-> NewMHA(LocalNHeads(nheads, world_size),
                          LocalKVHeads(kvheads, world_size), FALSE, "cpu", AllOn),
          pre_tp_nheads |-> nheads, pre_tp_kvheads |-> kvheads,
          rank |-> rank, world_size |-> world_size]

IdleWorker == [pc |-> "idle", past |-> None, out |-> None, cache |-> None,
               reduces |-> 0]

NoCall == [n |-> 0, use_cache |-> FALSE, is_self |-> TRUE]

NewGroup(world_size) ==
    [call |-> NoCall, contrib |-> [r \in 0..(world_size - 1) |-> None]]

\* Rank r constructs its module
TPConstruct(r) ==
    /\ tpmod[r] = None
    /\ tpmod' = [tpmod EXCEPT ![r] = NewTPMHA(tp.nheads, tp.kvheads, r, tp.world_size)]
    /\ UNCHANGED <<tp, wk, coll>>

AllBuilt == \A r \in Ranks : tpmod[r] # None /\ tpmod[r].kind = "TPMHA"

\* The group makes the same forward call on every rank (SPMD): each worker
\* passes the cache its previous call returned when the call uses the cache.
TPStartCall ==
    /\ AllBuilt
    /\ \A r \in Ranks : tpmod[r].core.nheads % tpmod[r].core.kvheads = 0
    /\ \A r \in Ranks : wk[r].pc \in {"idle", "returned", "raised"}
    /\ coll.call.n < MaxTPCalls
    /\ \E use_cache \in BOOLEAN, is_self \in BOOLEAN :
          /\ coll' = [call |-> [n |-> coll.call.n + 1, use_cache |-> use_cache,
                                is_self |-> is_self],
                      contrib |-> [r \in Ranks |-> None]]
          /\ wk' = [r \in Ranks |->
                       [pc |-> "called",
                        past |-> IF use_cache THEN wk[r].cache ELSE None,
                        out |-> None, cache |-> wk[r].cache, reduces |-> 0]]
    /\ UNCHANGED <<tp, tpmod>>

\* The arguments of the core forward on a rank
TPArgs(r) ==
    [q_len |-> 1, kv_len |-> 1, batch |-> 1, call |-> coll.call.n,
     attn_algorithm |-> "None", past |-> wk[r].past,
     use_cache |-> coll.call.use_cache, is_self |-> coll.call.is_self]

\* A mutant: the branch without cache returns the local output unreduced
AfterCoreSkipsReduce(w, use_cache, c) ==
    IF c.raised # ""
    THEN [w EXCEPT !.pc = "raised"]
    ELSE IF use_cache
    THEN [w EXCEPT !.pc = "in_reduce", !.reduces = w.reduces + 1,
                   !.out = c.out, !.cache = c.cache]
    ELSE [w EXCEPT !.pc = "returned", !.out = c.out]

\* TPMultiHeadAttention.forward after the core forward c: an exception of the
\* core leaves the call; otherwise both branches call the reduce on the output
\* (out_par[0] or out_par) and keep out_par[1] as it is.
AfterCore(w, use_cache, c) ==
    IF c.raised # ""
    THEN [w EXCEPT !.pc = "raised"]
    ELSE IF use_cache
    THEN [w EXCEPT !.pc = "in_reduce", !.reduces = w.reduces + 1,
                   !.out = c.out, !.cache = c.cache]
    ELSE [w EXCEPT !.pc = "in_reduce", !.reduces = w.reduces + 1,
                   !.out = c.out]

\* Worker r runs forward up to the collective: the copy into the parallel
\* region is the identity in the forward pass, then the core forward, then the
\* call of reduce_from_tensor_model_parallel_region, which blocks.
TPForwardCore(r) ==
    /\ wk[r].pc = "called"
    /\ LET c == CoreForward(tpmod[r].core, TPArgs(r), AllOn)
           w == AfterCore(wk[r], coll.call.use_cache, c)
       IN  /\ wk' = [wk EXCEPT ![r] = w]
           /\ tpmod' = [tpmod EXCEPT ![r].core.rotary_emb = c.rotary_emb]
           /\ coll' = IF w.pc = "in_reduce"
                      THEN [coll EXCEPT !.contrib[r] = w.out]
                      ELSE coll
    /\ UNCHANGED tp

\* The sum-reduce over the group: it completes on a rank once every rank has
\* contributed, and hands the rank the sum of the contributions.
AllReduceSum(contrib) ==
    [kind |-> "Reduced", of |-> contrib]

TPReduceReturns(r) ==
    /\ wk[r].pc = "in_reduce"
    /\ \A q \in Ranks : coll.contrib[q] # None
    /\ wk' = [wk EXCEPT ![r].pc = "returned",
                        ![r].out = AllReduceSum(coll.contrib)]
    /\ UNCHANGED <<tp, tpmod, coll>>

TPConstructStep == (\E r \in Ranks : TPConstruct(r)) /\ UNCHANGED <<ropeVars, attnVars, loadVars>>

TPStartCallStep == TPStartCall /\ UNCHANGED <<ropeVars, attnVars, loadVars>>

TPForwardCoreStep == (\E r \in Ranks : TPForwardCore(r)) /\ UNCHANGED <<ropeVars, attnVars, loadVars>>

TPReduceReturnsStep == (\E r \in Ranks : TPReduceReturns(r)) /\ UNCHANGED <<ropeVars, attnVars, loadVars>>

(***************************************************************************)
(* The specifications.                                                     *)
(***************************************************************************)
\* The variables of a component that a specification leaves at rest
RestRope ==
    /\ rotary = RotaryInit(0)
    /\ rope_ret = None
    /\ rope_seen = [r \in RopeReqs |-> None]

RestAttn ==
    /\ sdp = AllOn
    /\ mha = [i \in Inst |-> None]
    /\ sess = NoSession
    /\ ret = None

RestLoad ==
    /\ tpw = NewTPW(FALSE, FALSE)
    /\ load_ret = None

RestTP ==
    /\ tp = [nheads |-> 1, kvheads |-> 1, world_size |-> 1]
    /\ tpmod = [r \in 0..0 |-> None]
    /\ wk = [r \in 0..0 |-> IdleWorker]
    /\ coll = NewGroup(1)

InitRope ==
    /\ rotary \in {RotaryInit(m) : m \in 0..MaxPos}
    /\ rope_ret = None
    /\ rope_seen = [r \in RopeReqs |-> None]
    /\ RestAttn /\ RestLoad /\ RestTP

NextRope == RopeRequest

SpecRope == InitRope /\ [][NextRope]_vars

InitAttn == RestRope /\ RestAttn /\ RestLoad /\ RestTP

NextAttn == ConstructOne \/ StartSessionStep \/ SessionForwardStep

SpecAttn == InitAttn /\ [][NextAttn]_vars

NextFlags == ConstructAny \/ SetSdp \/ PlainForward

SpecFlags == InitAttn /\ [][NextFlags]_vars

InitLoad ==
    /\ tpw \in {NewTPW(use_bias, lenient) : use_bias \in BOOLEAN, lenient \in BOOLEAN}
    /\ load_ret = None
    /\ RestRope /\ RestAttn /\ RestTP

NextLoad == LoadWeights

SpecLoad == InitLoad /\ [][NextLoad]_vars

InitTP ==
    /\ tp \in [nheads : 1..MaxTPHeads, kvheads : 1..MaxTPHeads,
               world_size : 1..MaxWorld]
    /\ tpmod = [r \in 0..(tp.world_size - 1) |-> None]
    /\ wk = [r \in 0..(tp.world_size - 1) |-> IdleWorker]
    /\ coll = NewGroup(tp.world_size)
    /\ RestRope /\ RestAttn /\ RestLoad

NextTP == TPConstructStep \/ TPStartCallStep \/ TPForwardCoreStep \/ TPReduceReturnsStep

SpecTP == InitTP /\ [][NextTP]_vars


(***************************************************************************)
(* Properties.                                                             *)
(***************************************************************************)
\* The sum over the ranks 0..n of what f gives for the module of each rank
RECURSIVE SumRanks(_, _)
SumRanks(f, n) == IF n < 0 THEN 0 ELSE f[n] + SumRanks(f, n - 1)

LocalNHeadsOf == [r \in Ranks |-> tpmod[r].core.nheads]
LocalKVHeadsOf == [r \in Ranks |-> tpmod[r].core.kvheads]

AllConstructed == \A r \in Ranks : tpmod[r] # None

\* C1 as stated: for every (nheads, kvheads, world_size) that passes the
\* divisibility assertions, construction succeeds on every rank and the local
\* head counts of all ranks sum to the global counts, for the query heads and
\* for the KV heads.
C1_LocalHeadsSumToGlobal ==
    (TPAsserts(tp.nheads, tp.kvheads, tp.world_size) /\ AllConstructed) =>
        /\ AllBuilt
        /\ SumRanks(LocalNHeadsOf, tp.world_size - 1) = tp.nheads
        /\ SumRanks(LocalKVHeadsOf, tp.world_size - 1) = tp.kvheads

\* C1 amended: construction succeeds on every rank and the local query heads
\* sum to nheads; the local KV heads sum to kvheads when kvheads >= world_size,
\* and when kvheads < world_size every rank holds exactly one KV head (the KV
\* heads are replicated, the local counts sum to world_size).
C1_LocalHeadsAmended ==
    (TPAsserts(tp.nheads, tp.kvheads, tp.world_size) /\ AllConstructed) =>
        /\ AllBuilt
        /\ SumRanks(LocalNHeadsOf, tp.world_size - 1) = tp.nheads
        /\ tp.kvheads >= tp.world_size =>
              SumRanks(LocalKVHeadsOf, tp.world_size - 1) = tp.kvheads
        /\ tp.kvheads < tp.world_size =>
              /\ \A r \in Ranks : tpmod[r].core.kvheads = 1
              /\ SumRanks(LocalKVHeadsOf, tp.world_size - 1) = tp.world_size

\* C1 witness: four ranks share two KV heads, every rank is constructed
C1_Witness ==
    /\ tp.world_size = 4 /\ tp.kvheads = 2 /\ tp.nheads = 4
    /\ AllConstructed /\ AllBuilt

\* C7: a worker whose forward call returned has called the sum-reduce exactly
\* once, in the branch with cache and in the branch without; no worker calls it
\* more than once in a call; no worker waits in the collective for a worker
\* that left the call without it; what the call returns is the sum over all
\* ranks of the outputs, and the cache it returns is the rank's own, with the
\* rank's local KV heads, not a reduced one.
C7_ReduceOncePerForward ==
    \A r \in Ranks :
        /\ wk[r].reduces <= 1
        /\ wk[r].pc = "in_reduce" => wk[r].reduces = 1
        /\ wk[r].pc = "in_reduce" => \A q \in Ranks : wk[q].pc # "raised"
        /\ wk[r].pc = "returned" =>
              /\ wk[r].reduces = 1
              /\ wk[r].out.kind = "Reduced"
              /\ \A q \in Ranks : wk[r].out.of[q] # None /\ wk[r].out.of[q].kind = "Out"
              /\ coll.call.use_cache =>
                    /\ wk[r].cache.kind = "Cache"
                    /\ wk[r].cache.keys.kind = "Tensor"
                    /\ wk[r].cache.keys.h = tpmod[r].core.kvheads
                    /\ wk[r].cache.values.h = tpmod[r].core.kvheads

\* C7 witness: a group of at least two ranks has returned from a second call,
\* made without cache, after a first call with cache
C7_Witness ==
    /\ tp.world_size >= 2
    /\ coll.call.n = 2 /\ ~coll.call.use_cache
    /\ \A r \in Ranks : wk[r].pc = "returned" /\ wk[r].cache # None

Returned == ret # None /\ ret.raised = ""

IsPrefix(p, q) == Len(p) <= Len(q) /\ SubSeq(q, 1, Len(p)) = p

\* C2: in a chain of self-attention calls with use_cache, each given the cache
\* the previous one returned (the first given none), every call returns, the
\* sequence length of the returned key cache and of the returned value cache is
\* the sum of the key-source lengths of the calls so far, and the cache that
\* was passed in is a prefix of the cache returned (it never shrinks).
C2_SelfCacheGrows ==
    (ret # None /\ ret.is_self /\ ret.use_cache) =>
        /\ ret.raised = ""
        /\ Len(ret.cache.keys.seq) = sess.sum
        /\ Len(ret.cache.values.seq) = sess.sum
        /\ ret.past # None =>
              /\ IsPrefix(ret.past.keys.seq, ret.cache.keys.seq)
              /\ IsPrefix(ret.past.values.seq, ret.cache.values.seq)

\* C2 witness: a call with new positions was given a cache that held some
C2_Witness ==
    /\ Returned /\ ret.is_self /\ ret.use_cache
    /\ ret.past # None /\ Len(ret.past.keys.seq) > 0
    /\ ret.kv_len > 0

\* C3 as stated: a cross-attention call with use_cache returns, on the fused
\* path and on the standard path; given no cache it returns a computed cache,
\* and given the cache of an earlier call it returns that cache unchanged.
\* (Stated for the calls whose prior cache, if any, holds elements.)
C3_CrossCacheFrozen ==
    (/\ ret # None /\ ~ret.is_self /\ ret.use_cache
     /\ ret.past # None => Numel(ret.past.keys) > 0) =>
        /\ ret.raised = ""
        /\ ret.cache.kind = "Cache"
        /\ ret.past # None => ret.cache = ret.past

\* C8: with nheads > kvheads the expanded keys and values have nheads heads and
\* the heads expansion*h .. expansion*h + expansion - 1 all carry KV head h
\* (contiguous blocks); with expansion 1 the keys and values are passed on as
\* they are; the cache returned holds the kvheads-head tensors.
C8_ContiguousExpansion ==
    Returned =>
        LET m == mha[ret.inst]
            expansion == m.nheads \div m.kvheads
        IN  /\ m.nheads > m.kvheads =>
                  /\ ret.keys_e.h = m.nheads /\ ret.values_e.h = m.nheads
                  /\ DOMAIN ret.keys_e.src = 0..(m.nheads - 1)
                  /\ \A h \in 0..(m.kvheads - 1), i \in 0..(expansion - 1) :
                        /\ ret.keys_e.src[expansion * h + i] = h
                        /\ ret.values_e.src[expansion * h + i] = h
                  /\ ret.keys_e.seq = ret.keys.seq
                  /\ ret.values_e.seq = ret.values.seq
            /\ expansion = 1 => ret.keys_e = ret.keys /\ ret.values_e = ret.values
            /\ ret.use_cache =>
                  /\ ret.cache.keys = ret.keys /\ ret.cache.values = ret.values
                  /\ ret.cache.keys.kind = "Tensor" /\ ret.cache.keys.h = m.kvheads
                  /\ ret.cache.values.kind = "Tensor" /\ ret.cache.values.h = m.kvheads

\* C8 witness: four query heads over two KV heads, a non-empty cache returned
C8_Witness ==
    /\ Returned /\ ret.use_cache
    /\ mha[ret.inst].nheads = 4 /\ mha[ret.inst].kvheads = 2
    /\ Len(ret.keys.seq) > 1

\* C9: the queries of a call are rotated exactly when a position encoder is
\* configured and the keys were projected in that call; every key the call
\* attends to and every key of the cache it returns, new or taken from the
\* prior cache, has been rotated exactly once when a position encoder is
\* configured (and never without one), also in the expanded tensor.
C9_RotatedOnce ==
    Returned =>
        LET m == mha[ret.inst]
            once == IF m.position_encoder THEN 1 ELSE 0
        IN  /\ ret.queries.rot =
                  (IF m.position_encoder /\ (ret.is_self \/ ret.past = None)
                   THEN 1 ELSE 0)
            /\ \A t \in 1..Len(ret.keys.seq) : ret.keys.seq[t].rot = once
            /\ \A t \in 1..Len(ret.keys_e.seq) : ret.keys_e.seq[t].rot = once
            /\ \A t \in 1..Len(ret.values.seq) : ret.values.seq[t].rot = 0

\* C9 witness: with a position encoder, a self-attention call appended new
\* keys to the keys of an earlier call
C9_Witness ==
    /\ Returned /\ mha[ret.inst].position_encoder
    /\ ret.is_self /\ ret.use_cache /\ ret.kv_len > 0
    /\ ret.past # None /\ Len(ret.past.keys.seq) > 0
    /\ mha[ret.inst].nheads > mha[ret.inst].kvheads

\* C10 as stated: a forward call leaves the three switches as they were
\* immediately before it, with or without a hint, on whichever instance.
C10_SwitchesAsBeforeCall == [][PlainForward => sdp' = sdp]_vars

\* C4 as stated: the cached maximum never decreases and covers every length
\* requested so far; the tables are regenerated only when the request exceeds
\* the cached maximum; a request returns exactly seq_len rows; and a request
\* returns what the same request returned before the cache grew.
C4_RotaryCacheStable ==
    rope_ret # None =>
        /\ rotary.max_seq_len_cached >= rope_ret.before
        /\ \A q \in RopeReqs : rope_seen[q] # None => rotary.max_seq_len_cached >= q[1]
        /\ rope_ret.regenerated <=> rope_ret.seq_len > rope_ret.before
        /\ Len(rope_ret.result.cos) = rope_ret.seq_len
        /\ Len(rope_ret.result.sin) = rope_ret.seq_len
        /\ rope_ret.prior # None => rope_ret.result = rope_ret.prior.result

Recognized(use_bias) ==
    IF use_bias THEN Range(WeightNames) \cup Range(BiasNames) ELSE Range(WeightNames)

\* C5 as stated: load_weights raises the unused-weights error whenever the
\* mapping holds an entry that is no recognized parameter name, the message
\* lists exactly those entries, and no such error is raised otherwise.
C5_UnusedWeightsError ==
    load_ret # None =>
        LET foreign == load_ret.tensor_values \ Recognized(tpw.use_bias)
        IN  /\ foreign # {} =>
                  load_ret.error = "UnusedWeights" /\ load_ret.unused = foreign
            /\ foreign = {} => load_ret.error # "UnusedWeights"

\* C5 amended: load_weights raises the unused-weights error whenever the mapping
\* holds every recognized parameter name and at least one entry that is not
\* recognized; whenever it raises the error, the message lists exactly the
\* unrecognized keys and no recognized one; it does not raise it for a mapping
\* of recognized entries only, nor for any mapping of at most four entries
\* (eight with use_bias), where a missing name fails the load in another way.
C5_UnusedWeightsAmended ==
    load_ret # None =>
        LET foreign == load_ret.tensor_values \ Recognized(tpw.use_bias)
            complete == Recognized(tpw.use_bias) \subseteq load_ret.tensor_values
        IN  /\ (complete /\ foreign # {}) => load_ret.error = "UnusedWeights"
            /\ load_ret.error = "UnusedWeights" =>
                  foreign # {} /\ load_ret.unused = foreign
            /\ foreign = {} => load_ret.error # "UnusedWeights"
            /\ Cardinality(load_ret.tensor_values) <= Cardinality(Recognized(tpw.use_bias))
                  => load_ret.error # "UnusedWeights"

\* C5 witness: without use_bias, a mapping of the four weights, a bias and a
\* foreign key raised the error, which lists the bias and the foreign key
C5_Witness ==
    /\ load_ret # None /\ ~tpw.use_bias
    /\ load_ret.error = "UnusedWeights"
    /\ load_ret.unused = {"query.bias", "foo.weight"}

\* C6: when load_weights raises the unused-weights error, no parameter of the
\* module has been written.
C6_UnusedWeightsAtomic ==
    (load_ret # None /\ load_ret.error = "UnusedWeights") =>
        tpw.written = load_ret.before

\* C6 witness: the error was raised for a mapping with a foreign entry
C6_Witness ==
    /\ load_ret # None /\ load_ret.error = "UnusedWeights"
    /\ "foo.weight" \in load_ret.unused

\* The arguments of the last call of the session, with no prior cache in place
\* of the one it was given
LastCallWithoutCache ==
    [q_len |-> IF ret.is_self THEN ret.kv_len ELSE 1, kv_len |-> ret.kv_len,
     batch |-> sess.batch, call |-> sess.calls, attn_algorithm |-> "None",
     past |-> None, use_cache |-> ret.use_cache, is_self |-> ret.is_self]

\* C11 as stated: for every combination of is_self and use_cache, a call given
\* a prior cache whose key tensor has no elements returns, and returns the
\* output (and with use_cache the cache, made of the freshly projected keys and
\* values only) that the same call returns when it is given no prior cache.
C11_EmptyCacheAsAbsent ==
    (ret # None /\ ret.past # None /\ Numel(ret.past.keys) = 0) =>
        LET r == CoreForward(mha[ret.inst], LastCallWithoutCache, sdp)
        IN  /\ ret.raised = ""
            /\ ret.out = r.out
            /\ ret.cache = r.cache
            /\ ret.use_cache =>
                  /\ Len(ret.cache.keys.seq) = ret.kv_len
                  /\ \A t \in 1..Len(ret.cache.keys.seq) :
                        ret.cache.keys.seq[t].call = sess.calls

====
